---------------------------- MODULE Spec2Model ----------------------------
(***************************************************************************)
(* A model of the gqbd query builder (src/gqbd.go lines 1-627, with the    *)
(* dialect assemblers of src/mariadb.go and src/unnamed/part_006).         *)
(*                                                                         *)
(* Strings.  A Go string is modelled as a sequence of pieces whose         *)
(* concatenation is the string.  Every character the code inspects is a    *)
(* piece of its own: the marker "?", the sign "$", each decimal digit, the *)
(* space and the dot of an identifier, and the quote characters.  All      *)
(* other pieces are literal text that contains none of these characters,   *)
(* except for the keywords the assemblers write (" WHERE ", " AND ", ...), *)
(* which are written as one piece each.  A nil slice and an empty slice    *)
(* are both the empty sequence.                                            *)
(***************************************************************************)
EXTENDS Integers, Sequences, FiniteSets, TLC

\* ------------------------------------------------------------------------
\* Bounds of the model
\* ------------------------------------------------------------------------

\* chained configuration calls made on one builder
MaxCalls == 3

\* Build calls made on one builder
MaxBuilds == 2

\* ------------------------------------------------------------------------
\* Program constants
\* ------------------------------------------------------------------------

PostgreSQL == "postgres"

MariaDB == "mariadb"

Mysql == "mysql"

\* a DBType outside the three the package names (DBType is a plain string)
OtherDB == "sqlite"

\* the nil error
NoErr == "nil"

ErrEmptyIdentifier == "empty identifier not allowed"

ErrBetween == "failed to generate placeholders for BETWEEN"

ErrValuesOp == "Values() can only be used with INSERT operation"

ErrSetOp == "Set() can only be used with UPDATE operation"

ErrReturningOp == "Returning() can only be used with INSERT operation"

ErrNoInsertData == "no data provided for INSERT"

ErrNoUpdateData == "no data provided for UPDATE"

ErrUnsupportedOp == "unsupported operation"

\* ------------------------------------------------------------------------
\* String helpers (package strings, fmt)
\* ------------------------------------------------------------------------

\* the concatenation of the strings of a sequence
RECURSIVE Concat(_)
Concat(ss) ==
    IF ss = <<>> THEN <<>> ELSE Head(ss) \o Concat(Tail(ss))

\* strings.Join(ss, sep)
RECURSIVE Join(_, _)
Join(ss, sep) ==
    IF ss = <<>> THEN <<>>
    ELSE IF Len(ss) = 1 THEN Head(ss)
    ELSE Head(ss) \o sep \o Join(Tail(ss), sep)

\* strings.Contains(s, c) for a one-character c
Contains(s, c) == \E i \in 1..Len(s) : s[i] = c

\* strings.Split(s, c) for a one-character c: the parts between the
\* separators, empty parts kept
RECURSIVE SplitFrom(_, _, _)
SplitFrom(s, c, cur) ==
    IF s = <<>> THEN <<cur>>
    ELSE IF Head(s) = c THEN <<cur>> \o SplitFrom(Tail(s), c, <<>>)
    ELSE SplitFrom(Tail(s), c, Append(cur, Head(s)))

Split(s, c) == SplitFrom(s, c, <<>>)

\* strings.Fields(s): the parts between runs of spaces, empty parts dropped
Fields(s) == SelectSeq(Split(s, " "), LAMBDA p : p # <<>>)

\* strings.ToUpper on the pieces the code compares after upper-casing; every
\* other piece of the model holds no letter whose case decides a comparison
ToUpperPiece(p) ==
    CASE p \in {"as", "As", "aS", "AS"} -> "AS"
      [] p \in {"asc", "Asc", "ASC"} -> "ASC"
      [] p \in {"desc", "Desc", "DESC"} -> "DESC"
      [] OTHER -> p

ToUpper(s) == [i \in 1..Len(s) |-> ToUpperPiece(s[i])]

DigitChar == <<"0", "1", "2", "3", "4", "5", "6", "7", "8", "9">>

\* fmt.Sprintf("%d", n) for n >= 0
RECURSIVE Digits(_)
Digits(n) ==
    IF n < 10 THEN <<DigitChar[n + 1]>>
    ELSE Digits(n \div 10) \o <<DigitChar[(n % 10) + 1]>>

\* fmt.Sprintf("$%d", n)
Dollar(n) == <<"$">> \o Digits(n)

\* ------------------------------------------------------------------------
\* Identifier escaping
\* ------------------------------------------------------------------------

\* the double quote character
DoubleQuote == "\""

\* the backquote character U+0060, which a TLA+ string cannot hold
BackQuote == "bq"

escapePostgreSQLIdentifier(name) == <<DoubleQuote>> \o name \o <<DoubleQuote>>

escapeMySQLIdentifier(name) == <<BackQuote>> \o name \o <<BackQuote>>

escapeIdentifierName(dbType, name) ==
    CASE dbType = PostgreSQL -> escapePostgreSQLIdentifier(name)
      [] dbType \in {MariaDB, Mysql} -> escapeMySQLIdentifier(name)
      [] OTHER -> name

\* mutant: the empty string is escaped like any other name
EscapeIdentifier_EmptyAllowed(dbType, name) ==
    IF name = <<"*">> THEN [s |-> name, err |-> NoErr]
    ELSE [s |-> escapeIdentifierName(dbType, name), err |-> NoErr]

\* mutant: the qualifier before the dot is escaped like the column
EscapeIdentifier_QuoteQualifier(dbType, name) ==
    IF name = <<"*">> THEN [s |-> name, err |-> NoErr]
    ELSE IF name = <<>> THEN [s |-> <<>>, err |-> ErrEmptyIdentifier]
    ELSE
      LET dots == Split(name, ".")
      IN
      IF Contains(name, ".") /\ Len(dots) = 2
      THEN [s |-> escapeIdentifierName(dbType, dots[1]) \o <<".">>
                  \o escapeIdentifierName(dbType, dots[2]),
            err |-> NoErr]
      ELSE [s |-> escapeIdentifierName(dbType, name), err |-> NoErr]

\* EscapeIdentifier returns (string, error): [s |-> string, err |-> error]
EscapeIdentifier(dbType, name) ==
    IF name = <<"*">> THEN [s |-> name, err |-> NoErr]
    ELSE IF name = <<>> THEN [s |-> <<>>, err |-> ErrEmptyIdentifier]
    ELSE
      LET parts == Fields(name)
          dots == Split(name, ".")
      IN
      IF Contains(name, " ") /\ Len(parts) = 3 /\ ToUpper(parts[2]) = <<"AS">>
      THEN [s |-> escapeIdentifierName(dbType, parts[1]) \o <<" AS ">> \o parts[3],
            err |-> NoErr]
      ELSE IF Contains(name, " ") /\ Len(parts) = 2
      THEN [s |-> escapeIdentifierName(dbType, parts[1]) \o <<" ">> \o parts[2],
            err |-> NoErr]
      ELSE IF Contains(name, ".") /\ Len(dots) = 2
      THEN [s |-> dots[1] \o <<".">> \o escapeIdentifierName(dbType, dots[2]),
            err |-> NoErr]
      ELSE [s |-> escapeIdentifierName(dbType, name), err |-> NoErr]

\* mutant: the direction is compared as it was passed
ValidateDirection_CaseSensitive(direction) ==
    IF direction # <<"ASC">> /\ direction # <<"DESC">> THEN <<"DESC">> ELSE direction

ValidateDirection(direction) ==
    LET d == ToUpper(direction)
    IN IF d # <<"ASC">> /\ d # <<"DESC">> THEN <<"DESC">> ELSE d

\* ------------------------------------------------------------------------
\* Placeholders
\* ------------------------------------------------------------------------

\* the loop of ReplacePlaceholders: every "?" becomes "$" and the running
\* count, every other character is copied
RECURSIVE ReplaceFrom(_, _)
ReplaceFrom(condition, placeholderCount) ==
    IF condition = <<>> THEN <<>>
    ELSE IF Head(condition) = "?"
    THEN Dollar(placeholderCount) \o ReplaceFrom(Tail(condition), placeholderCount + 1)
    ELSE <<Head(condition)>> \o ReplaceFrom(Tail(condition), placeholderCount)

\* mutant: only Mysql keeps its "?" markers
ReplacePlaceholders_MysqlOnly(dbType, condition, startIdx) ==
    IF dbType = Mysql THEN condition
    ELSE ReplaceFrom(condition, startIdx)

ReplacePlaceholders(dbType, condition, startIdx) ==
    IF dbType = MariaDB \/ dbType = Mysql THEN condition
    ELSE ReplaceFrom(condition, startIdx)

\* the loop of shiftPlaceholders: every "?" becomes "$" and the running
\* index plus one, every other character (a "$" and its digits too) is copied
RECURSIVE ShiftFrom(_, _)
ShiftFrom(condition, placeholderIndex) ==
    IF condition = <<>> THEN <<>>
    ELSE IF Head(condition) = "?"
    THEN Dollar(placeholderIndex + 1) \o ShiftFrom(Tail(condition), placeholderIndex + 1)
    ELSE <<Head(condition)>> \o ShiftFrom(Tail(condition), placeholderIndex)

shiftPlaceholders(condition, offset) == ShiftFrom(condition, offset)

\* the slice GeneratePlaceholders joins
PlaceholderList(dbType, startIdx, count) ==
    [i \in 1..count |-> IF dbType = PostgreSQL THEN Dollar(startIdx + i - 1) ELSE <<"?">>]

GeneratePlaceholders(dbType, startIdx, count) ==
    Join(PlaceholderList(dbType, startIdx, count), <<", ">>)

\* ------------------------------------------------------------------------
\* The builder: type QueryBuilder and its chained methods.  A method is an
\* operator from the builder (and the call's arguments) to the builder
\* after the call.
\* ------------------------------------------------------------------------

\* a map with no key
EmptyMap == [k \in {} |-> 0]

\* the zero value of the struct, with dbType set
ZeroBuilder(dbType) ==
    [op |-> "", dbType |-> dbType, table |-> <<>>, columns |-> <<>>,
     joins |-> <<>>, conditions |-> <<>>, groupBy |-> <<>>, having |-> <<>>,
     orderBy |-> <<>>, limit |-> 0, offset |-> 0, args |-> <<>>,
     distinct |-> FALSE, err |-> NoErr,
     data |-> [nil |-> TRUE, m |-> EmptyMap], returning |-> <<>>]

\* the loop over columns of NewQueryBuilder: the escaped columns, or the
\* first error
RECURSIVE EscapeAll(_, _)
EscapeAll(dbType, cols) ==
    IF cols = <<>> THEN [ss |-> <<>>, err |-> NoErr]
    ELSE LET e == EscapeIdentifier(dbType, Head(cols))
         IN IF e.err # NoErr THEN [ss |-> <<>>, err |-> e.err]
            ELSE LET r == EscapeAll(dbType, Tail(cols))
                 IN [ss |-> <<e.s>> \o r.ss, err |-> r.err]

NewQueryBuilder(dbType, table, cols) ==
    LET qb0 == ZeroBuilder(dbType)
        t == EscapeIdentifier(dbType, table)
        c == EscapeAll(dbType, cols)
    IN IF t.err # NoErr THEN [qb0 EXCEPT !.err = t.err]
       ELSE IF c.err # NoErr THEN [qb0 EXCEPT !.table = t.s, !.err = c.err]
       ELSE [qb0 EXCEPT !.table = t.s,
                        !.columns = IF c.ss = <<>> THEN << <<"*">> >> ELSE c.ss]

BuildSelect(dbType, table, cols) ==
    [NewQueryBuilder(dbType, table, cols) EXCEPT !.op = "SELECT"]

BuildInsert(dbType, table) ==
    [NewQueryBuilder(dbType, table, <<>>) EXCEPT !.op = "INSERT"]

BuildUpdate(dbType, table) ==
    [NewQueryBuilder(dbType, table, <<>>) EXCEPT !.op = "UPDATE"]

BuildDelete(dbType, table) ==
    [NewQueryBuilder(dbType, table, <<>>) EXCEPT !.op = "DELETE"]

Distinct(q) ==
    IF q.err # NoErr THEN q ELSE [q EXCEPT !.distinct = TRUE]

Aggregate(q, function, column) ==
    IF q.err # NoErr THEN q
    ELSE LET e == EscapeIdentifier(q.dbType, column)
         IN IF e.err # NoErr THEN [q EXCEPT !.err = e.err]
            ELSE [q EXCEPT !.columns =
                      Append(@, function \o <<"(">> \o e.s \o <<")">>)]

\* LeftJoin, InnerJoin and RightJoin differ in the keyword only
JoinWith(q, keyword, joinTable, onCondition) ==
    IF q.err # NoErr THEN q
    ELSE LET e == EscapeIdentifier(q.dbType, joinTable)
         IN IF e.err # NoErr THEN [q EXCEPT !.err = e.err]
            ELSE [q EXCEPT !.joins =
                      Append(@, keyword \o e.s \o <<" ON ">> \o onCondition)]

LeftJoin(q, joinTable, onCondition) ==
    JoinWith(q, <<"LEFT JOIN ">>, joinTable, onCondition)

InnerJoin(q, joinTable, onCondition) ==
    JoinWith(q, <<"INNER JOIN ">>, joinTable, onCondition)

RightJoin(q, joinTable, onCondition) ==
    JoinWith(q, <<"RIGHT JOIN ">>, joinTable, onCondition)

\* mutant: the values of the call take the place of the args bound before
Where_ResetArgs(q, condition, vals) ==
    IF q.err # NoErr THEN q
    ELSE [q EXCEPT
            !.conditions =
                Append(@, ReplacePlaceholders(q.dbType, condition, Len(q.args) + 1)),
            !.args = vals]

Where(q, condition, vals) ==
    IF q.err # NoErr THEN q
    ELSE [q EXCEPT
            !.conditions =
                Append(@, ReplacePlaceholders(q.dbType, condition, Len(q.args) + 1)),
            !.args = @ \o vals]

WhereIn(q, column, values) ==
    IF q.err # NoErr THEN q
    ELSE LET e == EscapeIdentifier(q.dbType, column)
             placeholders == GeneratePlaceholders(q.dbType, Len(q.args) + 1, Len(values))
         IN IF e.err # NoErr THEN [q EXCEPT !.err = e.err]
            ELSE [q EXCEPT
                    !.conditions = Append(@, e.s \o <<" IN (">> \o placeholders \o <<")">>),
                    !.args = @ \o values]

WhereBetween(q, column, start, end) ==
    IF q.err # NoErr THEN q
    ELSE LET e == EscapeIdentifier(q.dbType, column)
             placeholders == GeneratePlaceholders(q.dbType, Len(q.args) + 1, 2)
             placeholderSlices == Split(placeholders, ", ")
         IN IF e.err # NoErr THEN [q EXCEPT !.err = e.err]
            ELSE IF Len(placeholderSlices) # 2 THEN [q EXCEPT !.err = ErrBetween]
            ELSE [q EXCEPT
                    !.conditions = Append(@, e.s \o <<" BETWEEN ">> \o placeholderSlices[1]
                                              \o <<" AND ">> \o placeholderSlices[2]),
                    !.args = @ \o <<start, end>>]

\* mutant: the zero value of int and of bool is skipped as well
AddWhereIfNotEmpty_SkipZero(q, condition, value) ==
    IF value.type = "nil" THEN q
    ELSE IF value.type = "string" /\ value.empty THEN q
    ELSE IF value.type = "*string" /\ (value.nilptr \/ value.empty) THEN q
    ELSE IF value.type \in {"int", "bool"} /\ value.id = 0 THEN q
    ELSE Where(q, condition, <<value.id>>)

\* A bound value is an integer that names it.  AddWhereIfNotEmpty looks at
\* the dynamic type of its value, which is given here beside the name:
\* [type |-> "nil" | "string" | "*string" | "int" | "bool", nilptr |-> the
\* pointer is nil, empty |-> the string (pointed to) is "", id |-> the name]
AddWhereIfNotEmpty(q, condition, value) ==
    IF value.type = "nil" THEN q
    ELSE IF value.type = "string" /\ value.empty THEN q
    ELSE IF value.type = "*string" /\ (value.nilptr \/ value.empty) THEN q
    ELSE Where(q, condition, <<value.id>>)

\* the loop over columns of GroupBy: each escaped column is appended until
\* one fails
RECURSIVE GroupBy(_, _)
GroupBy(q, cols) ==
    IF q.err # NoErr \/ cols = <<>> THEN q
    ELSE LET e == EscapeIdentifier(q.dbType, Head(cols))
         IN IF e.err # NoErr THEN [q EXCEPT !.err = e.err]
            ELSE GroupBy([q EXCEPT !.groupBy = Append(@, e.s)], Tail(cols))

\* mutant: the markers of a HAVING condition are numbered from 1
Having_FromOne(q, condition, vals) ==
    IF q.err # NoErr THEN q
    ELSE [q EXCEPT
            !.having = Append(@, ReplacePlaceholders(q.dbType, condition, 1)),
            !.args = @ \o vals]

Having(q, condition, vals) ==
    IF q.err # NoErr THEN q
    ELSE [q EXCEPT
            !.having =
                Append(@, ReplacePlaceholders(q.dbType, condition, Len(q.args) + 1)),
            !.args = @ \o vals]

\* mutant: the column is rendered whatever allowedColumns holds
OrderBy_AnyColumn(q, column, direction, allowedColumns) ==
    IF q.err # NoErr THEN q
    ELSE LET dir == ValidateDirection(direction)
             e == EscapeIdentifier(q.dbType, column)
         IN IF e.err # NoErr THEN [q EXCEPT !.err = e.err]
            ELSE [q EXCEPT !.orderBy = e.s \o <<" ">> \o dir]

\* allowedColumns is [nil |-> BOOLEAN, keys |-> the set of its keys]
OrderBy(q, column, direction, allowedColumns) ==
    IF q.err # NoErr THEN q
    ELSE LET dir == ValidateDirection(direction)
             col == IF ~allowedColumns.nil /\ column \notin allowedColumns.keys
                    THEN <<"id">> ELSE column
             e == EscapeIdentifier(q.dbType, col)
         IN IF e.err # NoErr THEN [q EXCEPT !.err = e.err]
            ELSE [q EXCEPT !.orderBy = e.s \o <<" ">> \o dir]

Limit(q, limit) ==
    IF q.err # NoErr THEN q ELSE [q EXCEPT !.limit = limit]

Offset(q, offset) ==
    IF q.err # NoErr THEN q ELSE [q EXCEPT !.offset = offset]

\* data is [nil |-> BOOLEAN, m |-> the map]
Values(q, data) ==
    IF q.op # "INSERT" THEN [q EXCEPT !.err = ErrValuesOp]
    ELSE [q EXCEPT !.data = data]

\* mutant: Set starts the builder's conditions and args over
Set_ClearsConditions(q, data) ==
    IF q.op # "UPDATE" THEN [q EXCEPT !.err = ErrSetOp]
    ELSE [q EXCEPT !.data = data, !.conditions = <<>>, !.args = <<>>]

Set(q, data) ==
    IF q.op # "UPDATE" THEN [q EXCEPT !.err = ErrSetOp]
    ELSE [q EXCEPT !.data = data]

\* mutant: the clause is stored whatever the operation
Returning_AnyOp(q, clause) == [q EXCEPT !.returning = clause]

Returning(q, clause) ==
    IF q.op # "INSERT" THEN [q EXCEPT !.err = ErrReturningOp]
    ELSE [q EXCEPT !.returning = clause]

\* ------------------------------------------------------------------------
\* Build and the per-operation assemblers.  An assembler returns the
\* builder as it leaves it and the three results of Build:
\* [qb, query, args, err].
\* ------------------------------------------------------------------------

Failed(q, e) == [qb |-> q, query |-> <<>>, args |-> <<>>, err |-> e]

\* SELECT ... up to ORDER BY, which the two dialects write alike
selectClauses(q) ==
    <<"SELECT ">>
    \o (IF q.distinct THEN <<"DISTINCT ">> ELSE <<>>)
    \o Join(q.columns, <<", ">>)
    \o <<" FROM ">> \o q.table
    \o (IF Len(q.joins) > 0 THEN <<" ">> \o Join(q.joins, <<" ">>) ELSE <<>>)
    \o (IF Len(q.conditions) > 0
        THEN <<" WHERE ">> \o Join(q.conditions, <<" AND ">>) ELSE <<>>)
    \o (IF Len(q.groupBy) > 0
        THEN <<" GROUP BY ">> \o Join(q.groupBy, <<", ">>) ELSE <<>>)
    \o (IF Len(q.having) > 0
        THEN <<" HAVING ">> \o Join(q.having, <<" AND ">>) ELSE <<>>)
    \o (IF q.orderBy # <<>> THEN <<" ORDER BY ">> \o q.orderBy ELSE <<>>)

\* mutant: OFFSET is written, and its value appended, before LIMIT
mysqlLimitOffset_OffsetFirst(q, text) ==
    LET q1 == IF q.offset > 0 THEN [q EXCEPT !.args = Append(@, q.offset)] ELSE q
        t1 == IF q.offset > 0 THEN text \o <<" OFFSET ", "?">> ELSE text
        q2 == IF q1.limit > 0 THEN [q1 EXCEPT !.args = Append(@, q1.limit)] ELSE q1
        t2 == IF q1.limit > 0 THEN t1 \o <<" LIMIT ", "?">> ELSE t1
    IN [qb |-> q2, query |-> t2, args |-> q2.args, err |-> NoErr]

\* the LIMIT and OFFSET steps of buildMySQLSelect, from the text so far
mysqlLimitOffset(q, text) ==
    LET q1 == IF q.limit > 0 THEN [q EXCEPT !.args = Append(@, q.limit)] ELSE q
        t1 == IF q.limit > 0 THEN text \o <<" LIMIT ", "?">> ELSE text
        q2 == IF q1.offset > 0 THEN [q1 EXCEPT !.args = Append(@, q1.offset)] ELSE q1
        t2 == IF q1.offset > 0 THEN t1 \o <<" OFFSET ", "?">> ELSE t1
    IN [qb |-> q2, query |-> t2, args |-> q2.args, err |-> NoErr]

buildMySQLSelect(q) == mysqlLimitOffset(q, selectClauses(q))

\* mutant: OFFSET is written only after a LIMIT
postgresLimitOffset_OffsetNeedsLimit(q, text) ==
    LET q1 == IF q.limit > 0 THEN [q EXCEPT !.args = Append(@, q.limit)] ELSE q
        t1 == IF q.limit > 0
              THEN text \o <<" LIMIT ">> \o Dollar(Len(q.args) + 1) ELSE text
        both == q1.limit > 0 /\ q1.offset > 0
        q2 == IF both THEN [q1 EXCEPT !.args = Append(@, q1.offset)] ELSE q1
        t2 == IF both THEN t1 \o <<" OFFSET ">> \o Dollar(Len(q1.args) + 1) ELSE t1
    IN [qb |-> q2, query |-> t2, args |-> q2.args, err |-> NoErr]

\* the LIMIT and OFFSET steps of buildPostgreSQLSelect, from the text so far
postgresLimitOffset(q, text) ==
    LET q1 == IF q.limit > 0 THEN [q EXCEPT !.args = Append(@, q.limit)] ELSE q
        t1 == IF q.limit > 0
              THEN text \o <<" LIMIT ">> \o Dollar(Len(q.args) + 1) ELSE text
        q2 == IF q1.offset > 0 THEN [q1 EXCEPT !.args = Append(@, q1.offset)] ELSE q1
        t2 == IF q1.offset > 0
              THEN t1 \o <<" OFFSET ">> \o Dollar(Len(q1.args) + 1) ELSE t1
    IN [qb |-> q2, query |-> t2, args |-> q2.args, err |-> NoErr]

buildPostgreSQLSelect(q) == postgresLimitOffset(q, selectClauses(q))

\* the identifier a map key names ("" is the empty string)
KeyStr(k) == IF k = "" THEN <<>> ELSE <<k>>

\* the loop over the map of the INSERT and UPDATE assemblers, keys taken in
\* the order given: the escaped columns and the values, or the first error
RECURSIVE columnsOf(_, _)
columnsOf(q, keys) ==
    IF keys = <<>> THEN [cols |-> <<>>, args |-> <<>>, err |-> NoErr]
    ELSE LET e == EscapeIdentifier(q.dbType, KeyStr(Head(keys)))
         IN IF e.err # NoErr THEN [cols |-> <<>>, args |-> <<>>, err |-> e.err]
            ELSE LET r == columnsOf(q, Tail(keys))
                 IN [cols |-> <<e.s>> \o r.cols,
                     args |-> <<q.data.m[Head(keys)]>> \o r.args,
                     err |-> r.err]

\* order: the order in which range yields the keys of the map
buildMySQLInsert(q, order) ==
    IF q.data.nil THEN Failed(q, ErrNoInsertData)
    ELSE LET c == columnsOf(q, order)
             placeholdersStr == Join([i \in 1..Len(order) |-> <<"?">>], <<", ">>)
         IN IF c.err # NoErr THEN Failed(q, c.err)
            ELSE [qb |-> q,
                  query |-> <<"INSERT INTO ">> \o q.table \o <<" (">>
                            \o Join(c.cols, <<", ">>) \o <<") VALUES (">>
                            \o placeholdersStr \o <<")">>,
                  args |-> c.args, err |-> NoErr]

buildPostgreSQLInsert(q, order) ==
    IF q.data.nil THEN Failed(q, ErrNoInsertData)
    ELSE LET c == columnsOf(q, order)
             placeholdersStr ==
                 ReplacePlaceholders(q.dbType,
                     Join([i \in 1..Len(order) |-> <<"?">>], <<", ">>), 1)
         IN IF c.err # NoErr THEN Failed(q, c.err)
            ELSE [qb |-> q,
                  query |-> <<"INSERT INTO ">> \o q.table \o <<" (">>
                            \o Join(c.cols, <<", ">>) \o <<") VALUES (">>
                            \o placeholdersStr \o <<")">>
                            \o (IF q.returning # <<>>
                                THEN <<" RETURNING ">> \o q.returning ELSE <<>>),
                  args |-> c.args, err |-> NoErr]

\* the lexicographic order of the map keys of the model
KeyOrder == <<"", "a", "b", "c">>

\* mutant: the keys are sorted largest first
SortStrings_Descending(keys) ==
    SelectSeq([i \in 1..Len(KeyOrder) |-> KeyOrder[Len(KeyOrder) + 1 - i]],
              LAMBDA k : k \in keys)

\* sort.Strings on a set of keys
SortStrings(keys) == SelectSeq(KeyOrder, LAMBDA k : k \in keys)

\* the SET pairs of the UPDATE assemblers, with the marker "?"
setClausesOf(cols) ==
    Join([i \in 1..Len(cols) |-> cols[i] \o <<" = ", "?">>], <<", ">>)

buildMySQLUpdate(q) ==
    IF q.data.nil THEN Failed(q, ErrNoUpdateData)
    ELSE LET c == columnsOf(q, SortStrings(DOMAIN q.data.m))
             updateArgs == c.args
             head == <<"UPDATE ">> \o q.table \o <<" SET ">> \o setClausesOf(c.cols)
         IN IF c.err # NoErr THEN Failed(q, c.err)
            ELSE IF Len(q.conditions) > 0
            THEN [qb |-> q,
                  query |-> head \o <<" WHERE ">> \o Join(q.conditions, <<" AND ">>),
                  args |-> updateArgs \o q.args, err |-> NoErr]
            ELSE [qb |-> q, query |-> head, args |-> updateArgs, err |-> NoErr]

buildPostgreSQLUpdate(q) ==
    IF q.data.nil THEN Failed(q, ErrNoUpdateData)
    ELSE LET c == columnsOf(q, SortStrings(DOMAIN q.data.m))
             updateArgs == c.args
             setClausesStr == ReplacePlaceholders(q.dbType, setClausesOf(c.cols), 1)
             head == <<"UPDATE ">> \o q.table \o <<" SET ">> \o setClausesStr
             whereConditions ==
                 [i \in 1..Len(q.conditions) |->
                     shiftPlaceholders(q.conditions[i], Len(updateArgs))]
         IN IF c.err # NoErr THEN Failed(q, c.err)
            ELSE IF Len(q.conditions) > 0
            THEN [qb |-> q,
                  query |-> head \o <<" WHERE ">> \o Join(whereConditions, <<" AND ">>),
                  args |-> updateArgs \o q.args, err |-> NoErr]
            ELSE [qb |-> q, query |-> head, args |-> updateArgs, err |-> NoErr]

buildSelect(q) ==
    IF q.dbType = PostgreSQL THEN buildPostgreSQLSelect(q) ELSE buildMySQLSelect(q)

\* mutant: every dialect is given the PostgreSQL assembler
buildInsert_AlwaysPostgres(q, order) == buildPostgreSQLInsert(q, order)

buildInsert(q, order) ==
    IF q.dbType = PostgreSQL THEN buildPostgreSQLInsert(q, order)
    ELSE buildMySQLInsert(q, order)

buildUpdate(q) ==
    IF q.dbType = PostgreSQL THEN buildPostgreSQLUpdate(q) ELSE buildMySQLUpdate(q)

buildDelete(q) ==
    [qb |-> q,
     query |-> <<"DELETE FROM ">> \o q.table
               \o (IF Len(q.conditions) > 0
                   THEN <<" WHERE ">> \o Join(q.conditions, <<" AND ">>) ELSE <<>>),
     args |-> q.args, err |-> NoErr]

\* mutant: a builder without a known operation is built as a SELECT
Build_DefaultSelect(q, order) ==
    IF q.err # NoErr THEN Failed(q, q.err)
    ELSE CASE q.op = "INSERT" -> buildInsert(q, order)
           [] q.op = "UPDATE" -> buildUpdate(q)
           [] q.op = "DELETE" -> buildDelete(q)
           [] OTHER -> buildSelect(q)

\* order: the order in which range yields the keys of qb.data (INSERT)
Build(q, order) ==
    IF q.err # NoErr THEN Failed(q, q.err)
    ELSE CASE q.op = "SELECT" -> buildSelect(q)
           [] q.op = "INSERT" -> buildInsert(q, order)
           [] q.op = "UPDATE" -> buildUpdate(q)
           [] q.op = "DELETE" -> buildDelete(q)
           [] OTHER -> Failed(q, ErrUnsupportedOp)

\* ------------------------------------------------------------------------
\* The state machine: one builder, the chain of calls a caller makes on it,
\* and the results of its Build calls
\* ------------------------------------------------------------------------

VARIABLES
    qb,       \* the builder (*QueryBuilder)
    query,    \* the query string Build returned, when Build was the last call
    outArgs,  \* the args Build returned, when Build was the last call
    outErr,   \* the error Build returned, when Build was the last call
    calls,    \* the calls made so far that the claims refer to: [m, cond, vals]
    ncalls,   \* the number of chained calls made so far
    nbuilds,  \* the number of Build calls made so far
    last,     \* "new", "call" or "Build": the last call made
    twin,     \* a second builder that is given the same calls, with the
              \* results of its Build: [qb, query, args, err]; <<>> when one
              \* builder alone is followed
    fn,       \* a call of a package function by itself: [f, args, returned,
              \* result]; <<>> when a builder is followed
    db        \* a call of a database helper: the configuration, the pool and
              \* the transaction; <<>> when a builder is followed

vars == <<qb, query, outArgs, outErr, calls, ncalls, nbuilds, last, twin, fn, db>>

Dialects == {PostgreSQL, MariaDB, Mysql}

\* the values passed by the calls cs, in call order
RECURSIVE ValuesOf(_)
ValuesOf(cs) ==
    IF cs = <<>> THEN <<>> ELSE Head(cs).vals \o ValuesOf(Tail(cs))

\* the calls that bind values to the markers of a condition
Binding(cs) ==
    SelectSeq(cs, LAMBDA c : c.m \in {"Where", "WhereIn", "WhereBetween", "Having"})

\* the values bound so far, in call order
BoundValues(cs) == ValuesOf(Binding(cs))

\* n values no earlier call has passed: the caller's values are told apart
\* by number, 101, 102, ...
Fresh(n) == [i \in 1..n |-> 100 + Len(ValuesOf(calls)) + i]

\* the state after construction by the factory that returned q
Constructed(q) ==
    /\ qb = q
    /\ query = <<>>
    /\ outArgs = <<>>
    /\ outErr = NoErr
    /\ calls = <<>>
    /\ ncalls = 0
    /\ nbuilds = 0
    /\ last = "new"
    /\ twin = <<>>
    /\ fn = <<>>
    /\ db = <<>>

\* a chained call that leaves the builder as q2
Chain(q2) ==
    /\ ncalls < MaxCalls
    /\ qb' = q2
    /\ ncalls' = ncalls + 1
    /\ last' = "call"
    /\ query' = <<>>
    /\ outArgs' = <<>>
    /\ outErr' = NoErr
    /\ UNCHANGED <<nbuilds, twin, fn, db>>

\* a chained call of method m, recorded with the condition (or column) and
\* the values it passes
Bind(m, cond, vals, q2) ==
    /\ Chain(q2)
    /\ calls' = Append(calls, [m |-> m, cond |-> cond, vals |-> vals])

\* a chained call that is not recorded
Plain(q2) ==
    /\ Chain(q2)
    /\ UNCHANGED calls

\* the conditions a caller passes to Where, each with the number of values
\* passed with it: as many as it has markers, or one more
WhereInputs ==
    { [cond |-> <<"x = ", "?">>, n |-> 1],
      [cond |-> <<"y > ", "?", " AND y < ", "?">>, n |-> 2],
      [cond |-> <<"z = ", "?">>, n |-> 2] }

CallWhere ==
    \E w \in WhereInputs :
        Bind("Where", w.cond, Fresh(w.n), Where(qb, w.cond, Fresh(w.n)))

CallWhereIn ==
    Bind("WhereIn", <<"a">>, Fresh(2), WhereIn(qb, <<"a">>, Fresh(2)))

CallWhereBetween ==
    Bind("WhereBetween", <<"b">>, Fresh(2),
         WhereBetween(qb, <<"b">>, Fresh(2)[1], Fresh(2)[2]))

CallHaving ==
    Bind("Having", <<"n > ", "?">>, Fresh(1), Having(qb, <<"n > ", "?">>, Fresh(1)))

LimitInputs == {0, 10}

OffsetInputs == {0, 3}

CallLimit == \E l \in LimitInputs : Bind("Limit", <<>>, <<l>>, Limit(qb, l))

CallOffset == \E o \in OffsetInputs : Bind("Offset", <<>>, <<o>>, Offset(qb, o))

NilAllowed == [nil |-> TRUE, keys |-> {}]

CallOrderBy ==
    Plain(OrderBy(qb, <<"a">>, <<"asc">>, NilAllowed))

\* the orders in which range can yield the keys of the map m
Orders(m) ==
    { o \in [1..Cardinality(DOMAIN m) -> DOMAIN m] :
        \A i, j \in DOMAIN o : i # j => o[i] # o[j] }

CallBuild ==
    /\ nbuilds < MaxBuilds
    /\ \E order \in Orders(qb.data.m) :
          LET r == Build(qb, order)
          IN /\ qb' = r.qb
             /\ query' = r.query
             /\ outArgs' = r.args
             /\ outErr' = r.err
    /\ nbuilds' = nbuilds + 1
    /\ last' = "Build"
    /\ UNCHANGED <<calls, ncalls, twin, fn, db>>

\* ------------------------------------------------------------------------
\* SELECT builders of the three dialects
\* ------------------------------------------------------------------------

InitSelect ==
    \E d \in Dialects : Constructed(BuildSelect(d, <<"t">>, << <<"a">> >>))

NextSelect ==
    \/ CallWhere
    \/ CallWhereIn
    \/ CallWhereBetween
    \/ CallHaving
    \/ CallOrderBy
    \/ CallLimit
    \/ CallOffset
    \/ CallBuild

SpecSelect == InitSelect /\ [][NextSelect]_vars

\* ------------------------------------------------------------------------
\* UPDATE builders of the three dialects
\* ------------------------------------------------------------------------

\* the maps a caller passes to Values and Set: nil, empty, one and two keys
DataInputs ==
    { [nil |-> TRUE, m |-> EmptyMap],
      [nil |-> FALSE, m |-> EmptyMap],
      [nil |-> FALSE, m |-> ("a" :> 1)],
      [nil |-> FALSE, m |-> ("b" :> 2) @@ ("a" :> 1)] }

CallSet == \E d \in DataInputs : Bind("Set", <<>>, <<>>, Set(qb, d))

InitUpdate ==
    \E d \in Dialects : Constructed(BuildUpdate(d, <<"t">>))

NextUpdate ==
    \/ CallSet
    \/ CallWhere
    \/ CallWhereIn
    \/ CallWhereBetween
    \/ CallBuild

SpecUpdate == InitUpdate /\ [][NextUpdate]_vars

\* ------------------------------------------------------------------------
\* Builders of the four operations, valid or with an empty table name, and
\* every chained method
\* ------------------------------------------------------------------------

\* a column name and the empty string
ColumnInputs == { <<"a">>, <<>> }

ChainDistinct == Plain(Distinct(qb))

ChainAggregate ==
    \E col \in ColumnInputs : Plain(Aggregate(qb, <<"COUNT">>, col))

ChainLeftJoin == Plain(LeftJoin(qb, <<"u">>, <<"u.id = t.id">>))

ChainInnerJoin == Plain(InnerJoin(qb, <<"u">>, <<"u.id = t.id">>))

ChainRightJoin == Plain(RightJoin(qb, <<"u">>, <<"u.id = t.id">>))

ChainWhere ==
    Bind("Where", <<"x = ", "?">>, Fresh(1), Where(qb, <<"x = ", "?">>, Fresh(1)))

ChainWhereIn == Bind("WhereIn", <<"a">>, Fresh(1), WhereIn(qb, <<"a">>, Fresh(1)))

ChainWhereBetween == CallWhereBetween

\* the values a caller passes to AddWhereIfNotEmpty: nil and a string
ValueInputs ==
    { [type |-> "nil", nilptr |-> FALSE, empty |-> FALSE],
      [type |-> "string", nilptr |-> FALSE, empty |-> FALSE] }

ChainAddWhereIfNotEmpty ==
    \E v \in ValueInputs :
        LET value == [type |-> v.type, nilptr |-> v.nilptr, empty |-> v.empty,
                      id |-> Fresh(1)[1]]
        IN Bind("AddWhereIfNotEmpty", <<"w = ", "?">>, <<value.id>>,
                AddWhereIfNotEmpty(qb, <<"w = ", "?">>, value))

ChainGroupBy == Plain(GroupBy(qb, << <<"a">>, <<"b">> >>))

ChainHaving == CallHaving

ChainOrderBy == CallOrderBy

ChainLimit == Bind("Limit", <<>>, <<10>>, Limit(qb, 10))

ChainOffset == Bind("Offset", <<>>, <<3>>, Offset(qb, 3))

\* the maps a caller passes to Values and Set here: empty and one key
ChainData == { d \in DataInputs : ~d.nil /\ Cardinality(DOMAIN d.m) <= 1 }

ChainValues == \E d \in ChainData : Bind("Values", <<>>, <<>>, Values(qb, d))

ChainSet == \E d \in ChainData : Bind("Set", <<>>, <<>>, Set(qb, d))

ChainReturning == Bind("Returning", <<>>, <<>>, Returning(qb, <<"id">>))

InitChain ==
    \E d \in {PostgreSQL, Mysql}, t \in { <<"t">>, <<>> } :
        \/ Constructed(BuildSelect(d, t, << <<"a">> >>))
        \/ Constructed(BuildInsert(d, t))
        \/ Constructed(BuildUpdate(d, t))
        \/ Constructed(BuildDelete(d, t))

NextChain ==
    \/ ChainDistinct
    \/ ChainAggregate
    \/ ChainLeftJoin
    \/ ChainInnerJoin
    \/ ChainRightJoin
    \/ ChainWhere
    \/ ChainWhereIn
    \/ ChainWhereBetween
    \/ ChainAddWhereIfNotEmpty
    \/ ChainGroupBy
    \/ ChainHaving
    \/ ChainOrderBy
    \/ ChainLimit
    \/ ChainOffset
    \/ ChainValues
    \/ ChainSet
    \/ ChainReturning
    \/ CallBuild

SpecChain == InitChain /\ [][NextChain]_vars

\* ------------------------------------------------------------------------
\* Builders of any dialect and any table name, made by BuildSelect or by
\* NewQueryBuilder itself, and the chained calls that take an identifier
\* ------------------------------------------------------------------------

\* chained calls made on a builder whose calls are recorded with the
\* identifiers they pass
MaxNamed == 2

\* the identifiers a caller passes: a plain name, a name that holds the
\* quote character of a dialect, and the empty string
NameInputs ==
    { <<"users">>, <<"a", DoubleQuote, "b">>, <<"a", BackQuote, "b">>, <<>> }

\* a DBType (a plain string) the caller passes
DBTypeInputs == {PostgreSQL, MariaDB, Mysql, OtherDB}

\* the record of a call of method m that passes the identifiers names (and,
\* to OrderBy, the map allowed)
NamedCall(m, names, allowed) ==
    [m |-> m, cond |-> <<>>, vals |-> <<>>, names |-> names, allowed |-> allowed]

\* the state after construction by factory f, which returned q
ConstructedBy(f, table, cols, q) ==
    /\ qb = q
    /\ query = <<>>
    /\ outArgs = <<>>
    /\ outErr = NoErr
    /\ calls = <<NamedCall(f, <<table>> \o cols, NilAllowed)>>
    /\ ncalls = 0
    /\ nbuilds = 0
    /\ last = "new"
    /\ twin = <<>>
    /\ fn = <<>>
    /\ db = <<>>

\* a chained call that passes identifiers and leaves the builder as q2
Named(m, names, allowed, q2) ==
    /\ ncalls < MaxNamed
    /\ Chain(q2)
    /\ calls' = Append(calls, NamedCall(m, names, allowed))

NamedAggregate ==
    \E col \in ColumnInputs :
        Named("Aggregate", <<col>>, NilAllowed, Aggregate(qb, <<"COUNT">>, col))

NamedLeftJoin ==
    \E t \in { <<"u">>, <<>> } :
        Named("LeftJoin", <<t>>, NilAllowed, LeftJoin(qb, t, <<"u.id = t.id">>))

NamedInnerJoin ==
    Named("InnerJoin", << <<>> >>, NilAllowed, InnerJoin(qb, <<>>, <<"u.id = t.id">>))

NamedRightJoin ==
    Named("RightJoin", << <<>> >>, NilAllowed, RightJoin(qb, <<>>, <<"u.id = t.id">>))

NamedWhereIn ==
    \E col \in ColumnInputs :
        Named("WhereIn", <<col>>, NilAllowed, WhereIn(qb, col, <<7>>))

NamedWhereBetween ==
    \E col \in ColumnInputs :
        Named("WhereBetween", <<col>>, NilAllowed, WhereBetween(qb, col, 1, 9))

NamedGroupBy ==
    \E col \in NameInputs :
        Named("GroupBy", <<col>>, NilAllowed, GroupBy(qb, <<col>>))

\* the maps of allowed columns a caller passes to OrderBy: nil and {a: true}
AllowedInputs == { NilAllowed, [nil |-> FALSE, keys |-> { <<"a">> }] }

\* the columns a caller asks to order by: an allowed one, another one and
\* the empty string
OrderColumnInputs == { <<"a">>, <<"secret">>, <<>> }

NamedOrderBy ==
    \E col \in OrderColumnInputs, allowed \in AllowedInputs :
        Named("OrderBy", <<col>>, allowed, OrderBy(qb, col, <<"asc">>, allowed))

\* the columns a caller passes to the factory: none, one, and the empty string
FactoryColumnInputs == { <<>>, << <<"a">> >>, << <<>> >> }

InitIdent ==
    \E d \in DBTypeInputs, t \in NameInputs, cols \in FactoryColumnInputs :
        \/ ConstructedBy("NewQueryBuilder", t, cols, NewQueryBuilder(d, t, cols))
        \/ ConstructedBy("BuildSelect", t, cols, BuildSelect(d, t, cols))

NextIdent ==
    \/ NamedAggregate
    \/ NamedLeftJoin
    \/ NamedInnerJoin
    \/ NamedRightJoin
    \/ NamedWhereIn
    \/ NamedWhereBetween
    \/ NamedGroupBy
    \/ NamedOrderBy
    \/ CallBuild

SpecIdent == InitIdent /\ [][NextIdent]_vars

\* ------------------------------------------------------------------------
\* Two builders of the MySQL family, one made with dialect mysql and one
\* with dialect mariadb by the same factory, that are given the same calls
\* ------------------------------------------------------------------------

\* the state after the factory returned q for mysql and t for mariadb
ConstructedPair(q, t) ==
    /\ qb = q
    /\ query = <<>>
    /\ outArgs = <<>>
    /\ outErr = NoErr
    /\ calls = <<>>
    /\ ncalls = 0
    /\ nbuilds = 0
    /\ last = "new"
    /\ twin = [qb |-> t, query |-> <<>>, args |-> <<>>, err |-> NoErr]
    /\ fn = <<>>
    /\ db = <<>>

\* a chained call of method m, passing the values vals, made on both
\* builders: it leaves the mysql builder as q2 and the mariadb builder as t2
Pair(m, vals, q2, t2) ==
    /\ ncalls < MaxCalls
    /\ qb' = q2
    /\ twin' = [qb |-> t2, query |-> <<>>, args |-> <<>>, err |-> NoErr]
    /\ calls' = Append(calls, [m |-> m, cond |-> <<>>, vals |-> vals])
    /\ ncalls' = ncalls + 1
    /\ last' = "call"
    /\ query' = <<>>
    /\ outArgs' = <<>>
    /\ outErr' = NoErr
    /\ UNCHANGED <<nbuilds, fn, db>>

PairDistinct ==
    Pair("Distinct", <<>>, Distinct(qb), Distinct(twin.qb))

PairAggregate ==
    Pair("Aggregate", <<>>,
         Aggregate(qb, <<"COUNT">>, <<"a">>),
         Aggregate(twin.qb, <<"COUNT">>, <<"a">>))

PairLeftJoin ==
    Pair("LeftJoin", <<>>,
         LeftJoin(qb, <<"u">>, <<"u.id = t.id">>),
         LeftJoin(twin.qb, <<"u">>, <<"u.id = t.id">>))

PairWhere ==
    Pair("Where", Fresh(1),
         Where(qb, <<"x = ", "?">>, Fresh(1)),
         Where(twin.qb, <<"x = ", "?">>, Fresh(1)))

PairWhereIn ==
    Pair("WhereIn", Fresh(2),
         WhereIn(qb, <<"a">>, Fresh(2)),
         WhereIn(twin.qb, <<"a">>, Fresh(2)))

PairWhereBetween ==
    Pair("WhereBetween", Fresh(2),
         WhereBetween(qb, <<"b">>, Fresh(2)[1], Fresh(2)[2]),
         WhereBetween(twin.qb, <<"b">>, Fresh(2)[1], Fresh(2)[2]))

PairGroupBy ==
    Pair("GroupBy", <<>>,
         GroupBy(qb, << <<"a">> >>),
         GroupBy(twin.qb, << <<"a">> >>))

PairHaving ==
    Pair("Having", Fresh(1),
         Having(qb, <<"n > ", "?">>, Fresh(1)),
         Having(twin.qb, <<"n > ", "?">>, Fresh(1)))

PairOrderBy ==
    Pair("OrderBy", <<>>,
         OrderBy(qb, <<"a">>, <<"asc">>, NilAllowed),
         OrderBy(twin.qb, <<"a">>, <<"asc">>, NilAllowed))

PairLimit ==
    Pair("Limit", <<10>>, Limit(qb, 10), Limit(twin.qb, 10))

PairOffset ==
    Pair("Offset", <<3>>, Offset(qb, 3), Offset(twin.qb, 3))

PairValues ==
    \E d \in DataInputs :
        Pair("Values", <<>>, Values(qb, d), Values(twin.qb, d))

PairSet ==
    \E d \in DataInputs :
        Pair("Set", <<>>, Set(qb, d), Set(twin.qb, d))

PairReturning ==
    Pair("Returning", <<>>,
         Returning(qb, <<"id">>),
         Returning(twin.qb, <<"id">>))

\* Build on both builders; range yields the keys of each builder's map in
\* an order of its own
PairBuild ==
    /\ nbuilds < MaxBuilds
    /\ \E order \in Orders(qb.data.m), twinOrder \in Orders(twin.qb.data.m) :
          LET r == Build(qb, order)
              t == Build(twin.qb, twinOrder)
          IN /\ qb' = r.qb
             /\ query' = r.query
             /\ outArgs' = r.args
             /\ outErr' = r.err
             /\ twin' = [qb |-> t.qb, query |-> t.query, args |-> t.args,
                         err |-> t.err]
    /\ nbuilds' = nbuilds + 1
    /\ last' = "Build"
    /\ UNCHANGED <<calls, ncalls, fn, db>>

InitFamily ==
    \/ ConstructedPair(BuildSelect(Mysql, <<"t">>, << <<"a">> >>),
                       BuildSelect(MariaDB, <<"t">>, << <<"a">> >>))
    \/ ConstructedPair(BuildInsert(Mysql, <<"t">>), BuildInsert(MariaDB, <<"t">>))
    \/ ConstructedPair(BuildUpdate(Mysql, <<"t">>), BuildUpdate(MariaDB, <<"t">>))
    \/ ConstructedPair(BuildDelete(Mysql, <<"t">>), BuildDelete(MariaDB, <<"t">>))

NextFamily ==
    \/ PairDistinct
    \/ PairAggregate
    \/ PairLeftJoin
    \/ PairWhere
    \/ PairWhereIn
    \/ PairWhereBetween
    \/ PairGroupBy
    \/ PairHaving
    \/ PairOrderBy
    \/ PairLimit
    \/ PairOffset
    \/ PairValues
    \/ PairSet
    \/ PairReturning
    \/ PairBuild

SpecFamily == InitFamily /\ [][NextFamily]_vars

\* ------------------------------------------------------------------------
\* INSERT builders of the three dialects
\* ------------------------------------------------------------------------

CallValues == \E d \in DataInputs : Bind("Values", <<>>, <<>>, Values(qb, d))

\* the clauses a caller passes to Returning: the empty string and two lists
ReturningInputs == { <<>>, <<"id">>, <<"id, created_at">> }

CallReturning ==
    \E clause \in ReturningInputs :
        Bind("Returning", clause, <<>>, Returning(qb, clause))

InitInsert ==
    \E d \in Dialects : Constructed(BuildInsert(d, <<"t">>))

NextInsert ==
    \/ CallValues
    \/ CallReturning
    \/ CallBuild

SpecInsert == InitInsert /\ [][NextInsert]_vars

\* ------------------------------------------------------------------------
\* The package functions shiftPlaceholders and EscapeIdentifier called by
\* themselves: the arguments are drawn first, then the function returns
\* ------------------------------------------------------------------------

\* the variables of the builder
builderVars == <<qb, query, outArgs, outErr, calls, ncalls, nbuilds, last, twin>>

\* no builder is followed
NoBuilder ==
    /\ qb = <<>>
    /\ query = <<>>
    /\ outArgs = <<>>
    /\ outErr = NoErr
    /\ calls = <<>>
    /\ ncalls = 0
    /\ nbuilds = 0
    /\ last = "new"
    /\ twin = <<>>

\* the largest offset passed to shiftPlaceholders
MaxShift == 2

\* the numbers of the placeholders in the conditions passed to
\* shiftPlaceholders: one and two digits
NumberInputs == {1, 2, 9, 10, 11, 99}

\* the conditions passed to shiftPlaceholders: one or two numbered
\* placeholders, a ? marker, no placeholder
ShiftInputs ==
    { <<"x = ">> \o Dollar(n) : n \in NumberInputs }
    \cup { <<"x = ">> \o Dollar(n) \o <<" AND y = ">> \o Dollar(m) :
             n \in NumberInputs, m \in NumberInputs }
    \cup { <<"x = ", "?">>, <<"x IS NULL">> }

\* the names passed to EscapeIdentifier: with a qualifier, without, with two
\* dots, with a qualifier and an alias, with nothing after the dot
QualifiedInputs ==
    { <<"e", ".", "id">>, <<"users", ".", "name">>, <<"id">>,
      <<"a", ".", "b", ".", "c">>, <<"e", ".", "id", " ", "x">>, <<"e", ".">> }

\* the call f(args), before it returns
Called(f, args) ==
    [f |-> f, args |-> args, returned |-> FALSE, result |-> <<>>]

InitFunc ==
    /\ NoBuilder
    /\ db = <<>>
    /\ \/ \E condition \in ShiftInputs, offset \in 0..MaxShift :
             fn = Called("shiftPlaceholders", <<condition, offset>>)
       \/ \E dbType \in DBTypeInputs, name \in QualifiedInputs :
             fn = Called("EscapeIdentifier", <<dbType, name>>)

ReturnShiftPlaceholders ==
    /\ fn.f = "shiftPlaceholders"
    /\ ~fn.returned
    /\ fn' = [fn EXCEPT !.returned = TRUE,
                        !.result = shiftPlaceholders(fn.args[1], fn.args[2])]
    /\ UNCHANGED <<builderVars, db>>

ReturnEscapeIdentifier ==
    /\ fn.f = "EscapeIdentifier"
    /\ ~fn.returned
    /\ fn' = [fn EXCEPT !.returned = TRUE,
                        !.result = EscapeIdentifier(fn.args[1], fn.args[2])]
    /\ UNCHANGED <<builderVars, db>>

NextFunc ==
    \/ ReturnShiftPlaceholders
    \/ ReturnEscapeIdentifier

SpecFunc == InitFunc /\ [][NextFunc]_vars

\* ------------------------------------------------------------------------
\* Two UPDATE builders of one dialect given the same Set(data) and the same
\* Where-family calls: qb is given Set first, twin.qb is given Set last
\* ------------------------------------------------------------------------

\* Set(data) on the first builder, before any other call
SetFirst ==
    /\ calls = <<>>
    /\ \E d \in DataInputs :
          /\ qb' = Set(qb, d)
          /\ calls' = <<[m |-> "Set", cond |-> <<>>, vals |-> <<>>]>>
    /\ ncalls' = ncalls + 1
    /\ last' = "call"
    /\ UNCHANGED <<query, outArgs, outErr, nbuilds, twin, fn, db>>

\* a Where-family call on both builders, after Set on the first and before
\* Set on the second
BetweenSets == calls # <<>> /\ last = "call"

CommuteWhere == BetweenSets /\ PairWhere

CommuteWhereIn == BetweenSets /\ PairWhereIn

CommuteWhereBetween == BetweenSets /\ PairWhereBetween

\* Set on the second builder, with the data the first one was given
SetLast ==
    /\ BetweenSets
    /\ twin' = [twin EXCEPT !.qb = Set(twin.qb, qb.data)]
    /\ last' = "Set"
    /\ UNCHANGED <<qb, query, outArgs, outErr, calls, ncalls, nbuilds, fn, db>>

\* Build on both builders once both have been given Set
CommuteBuild == last \in {"Set", "Build"} /\ PairBuild

InitCommute ==
    \E d \in Dialects :
        ConstructedPair(BuildUpdate(d, <<"t">>), BuildUpdate(d, <<"t">>))

NextCommute ==
    \/ SetFirst
    \/ CommuteWhere
    \/ CommuteWhereIn
    \/ CommuteWhereBetween
    \/ SetLast
    \/ CommuteBuild

SpecCommute == InitCommute /\ [][NextCommute]_vars

\* ------------------------------------------------------------------------
\* SELECT builders given OrderBy with any direction and AddWhereIfNotEmpty
\* with a value of any dynamic type
\* ------------------------------------------------------------------------

\* the directions a caller passes to OrderBy: the two words in several
\* cases, the empty string, a word followed by a space, another word
DirectionInputs ==
    { <<"asc">>, <<"Asc">>, <<"DESC">>, <<"desc">>, <<>>, <<"asc", " ">>,
      <<"sideways">> }

\* OrderBy, recorded with the direction it was passed
DirectedOrderBy ==
    \E direction \in DirectionInputs :
        Bind("OrderBy", direction, <<>>,
             OrderBy(qb, <<"a">>, direction, NilAllowed))

\* the values a caller passes to AddWhereIfNotEmpty: nil, "", a string, a
\* nil *string, a pointer to "", a pointer to a string, 0, an int, false
TypedValueInputs ==
    { [type |-> "nil", nilptr |-> FALSE, empty |-> FALSE, zero |-> FALSE],
      [type |-> "string", nilptr |-> FALSE, empty |-> TRUE, zero |-> FALSE],
      [type |-> "string", nilptr |-> FALSE, empty |-> FALSE, zero |-> FALSE],
      [type |-> "*string", nilptr |-> TRUE, empty |-> FALSE, zero |-> FALSE],
      [type |-> "*string", nilptr |-> FALSE, empty |-> TRUE, zero |-> FALSE],
      [type |-> "*string", nilptr |-> FALSE, empty |-> FALSE, zero |-> FALSE],
      [type |-> "int", nilptr |-> FALSE, empty |-> FALSE, zero |-> TRUE],
      [type |-> "int", nilptr |-> FALSE, empty |-> FALSE, zero |-> FALSE],
      [type |-> "bool", nilptr |-> FALSE, empty |-> FALSE, zero |-> TRUE] }

\* AddWhereIfNotEmpty, recorded with the condition and the value it was
\* passed; the zero value of int and of bool is named 0
TypedAddWhereIfNotEmpty ==
    \E v \in TypedValueInputs :
        LET value == [type |-> v.type, nilptr |-> v.nilptr, empty |-> v.empty,
                      id |-> IF v.zero THEN 0 ELSE Fresh(1)[1]]
        IN Bind("AddWhereIfNotEmpty", <<"w = ", "?">>, <<value>>,
                AddWhereIfNotEmpty(qb, <<"w = ", "?">>, value))

InitClause == InitSelect

NextClause ==
    \/ DirectedOrderBy
    \/ TypedAddWhereIfNotEmpty
    \/ CallWhereIn
    \/ CallBuild

SpecClause == InitClause /\ [][NextClause]_vars

\* ------------------------------------------------------------------------
\* InitConnection: the configuration it is passed and the limits of the
\* pool it returns
\* ------------------------------------------------------------------------

DefaultMaxLifeTime == 60        \* 60 * time.Second, in seconds

DefaultMaxIdleConns == 50

DefaultMaxOpenConns == 100

decideDefaultConfigs(cfg) ==
    [cfg EXCEPT
        !.MaxLifeTime = IF @ = 0 THEN DefaultMaxLifeTime ELSE @,
        !.MaxIdleConns = IF @ = 0 THEN DefaultMaxIdleConns ELSE @,
        !.MaxOpenConns = IF @ = 0 THEN DefaultMaxOpenConns ELSE @]

\* a connector is [nil |-> BOOLEAN, pool |-> the limits set on its *sql.DB:
\* [maxLifetime, maxIdleCount, maxOpen]]
NilConnector ==
    [nil |-> TRUE, pool |-> [maxLifetime |-> 0, maxIdleCount |-> 0, maxOpen |-> 0]]

\* opened: sql.Open returned no error
InitPostgresConnection(cfg, opened) ==
    IF ~opened
    THEN [connect |-> NilConnector, err |-> "postgres open connection error"]
    ELSE LET c == decideDefaultConfigs(cfg)
         IN [connect |-> [nil |-> FALSE,
                          pool |-> [maxLifetime |-> c.MaxLifeTime,
                                    maxIdleCount |-> c.MaxIdleConns,
                                    maxOpen |-> c.MaxIdleConns]],
             err |-> NoErr]

InitMariadbConnection(cfg, opened) ==
    IF ~opened
    THEN [connect |-> NilConnector, err |-> "postgres open connection error"]
    ELSE LET c == decideDefaultConfigs(cfg)
         IN [connect |-> [nil |-> FALSE,
                          pool |-> [maxLifetime |-> c.MaxLifeTime,
                                    maxIdleCount |-> c.MaxIdleConns,
                                    maxOpen |-> c.MaxIdleConns]],
             err |-> NoErr]

InitConnection(dbType, cfg, opened) ==
    CASE dbType = MariaDB -> InitMariadbConnection(cfg, opened)
      [] dbType = Mysql -> InitMariadbConnection(cfg, opened)
      [] dbType = PostgreSQL -> InitPostgresConnection(cfg, opened)
      [] OTHER -> [connect |-> NilConnector, err |-> "unsupported DB type"]

\* the limits a caller configures, 0 for a field left unset; MaxLifeTime is
\* in seconds
ConfigInputs ==
    [MaxLifeTime : {0, 30}, MaxIdleConns : {0, 10}, MaxOpenConns : {0, 10, 200}]

\* InitConnection(dbType, cfg) has been called
InitConn ==
    /\ NoBuilder
    /\ fn = <<>>
    /\ \E dbType \in DBTypeInputs, cfg \in ConfigInputs :
          db = [f |-> "InitConnection", dbType |-> dbType, cfg |-> cfg,
                returned |-> FALSE, connect |-> NilConnector, err |-> NoErr]

\* InitConnection returns, sql.Open having succeeded or failed
ReturnInitConnection ==
    /\ ~db.returned
    /\ \E opened \in BOOLEAN :
          LET r == InitConnection(db.dbType, db.cfg, opened)
          IN db' = [db EXCEPT !.returned = TRUE, !.connect = r.connect,
                              !.err = r.err]
    /\ UNCHANGED <<builderVars, fn>>

NextConn == ReturnInitConnection

SpecConn == InitConn /\ [][NextConn]_vars

\* ------------------------------------------------------------------------
\* The helpers that run a list of statements in one transaction.  The
\* database is followed through the calls the helper makes on it: ops is
\* the sequence of those calls, each [op, stmt, res] with res the outcome
\* "ok", "error" or "ErrTxDone"; tx is the state of the transaction.  The
\* eight helpers differ in the text of their errors and log lines and in
\* the results they gather, not in the calls they make
\* ------------------------------------------------------------------------

MaxStatements == 2

TxHelpers ==
    {"PgCreateTable", "PgInsertMultiple", "PgUpdateMultiple", "PgDeleteMultiple",
     "MrCreateTable", "MrInsertMultiple", "MrUpdateMultiple", "MrDeleteMultiple"}

\* the lists of statements a caller passes
QueryLists ==
    UNION { [1..n -> {"s1", "s2"}] : n \in 0..MaxStatements }

\* the outcome of a call on the database
Outcomes == {"ok", "error"}

\* connect.Begin()
BeginTx(d, res) ==
    LET o == Append(d.ops, [op |-> "Begin", stmt |-> "", res |-> res])
    IN IF res # "ok"
       THEN [d EXCEPT !.ops = o, !.err = "bigin transaction error", !.pc = "returned"]
       ELSE [d EXCEPT !.ops = o, !.tx = "active",
                      !.pc = IF d.queryList = <<>> THEN "Commit" ELSE "Exec"]

\* mutant: the loop goes on to the next statement whatever ExecContext returned
ExecNext_IgnoresError(d, res) ==
    [d EXCEPT
        !.ops = Append(@, [op |-> "Exec", stmt |-> d.queryList[d.i], res |-> res]),
        !.i = @ + 1,
        !.pc = IF d.i = Len(d.queryList) THEN "Commit" ELSE "Exec"]

\* one turn of the loop: tx.ExecContext(ctx, queryList[i])
ExecNext(d, res) ==
    LET o == Append(d.ops, [op |-> "Exec", stmt |-> d.queryList[d.i], res |-> res])
    IN IF res # "ok"
       THEN [d EXCEPT !.ops = o, !.err = "exec transaction context error",
                      !.pc = "Deferred"]
       ELSE [d EXCEPT !.ops = o, !.i = @ + 1,
                      !.pc = IF d.i = Len(d.queryList) THEN "Commit" ELSE "Exec"]

\* tx.Commit(): the transaction is finished whatever the driver answers
CommitTx(d, res) ==
    LET o == Append(d.ops, [op |-> "Commit", stmt |-> "", res |-> res])
    IN IF res # "ok"
       THEN [d EXCEPT !.ops = o, !.tx = "commit failed",
                      !.err = "commit transaction error", !.pc = "Deferred"]
       ELSE [d EXCEPT !.ops = o, !.tx = "committed", !.pc = "Deferred"]

\* the deferred tx.Rollback(), run as the helper returns: on a finished
\* transaction it returns sql.ErrTxDone and does nothing; any other error
\* is logged
DeferredRollback(d, res) ==
    IF d.tx # "active"
    THEN [d EXCEPT
            !.ops = Append(@, [op |-> "Rollback", stmt |-> "", res |-> "ErrTxDone"]),
            !.pc = "returned"]
    ELSE [d EXCEPT
            !.ops = Append(@, [op |-> "Rollback", stmt |-> "", res |-> res]),
            !.tx = "rolled back",
            !.pc = "returned"]

\* a helper has been called with a list of statements
InitTx ==
    /\ NoBuilder
    /\ fn = <<>>
    /\ \E f \in TxHelpers, queryList \in QueryLists :
          db = [f |-> f, queryList |-> queryList, pc |-> "Begin", i |-> 1,
                tx |-> "none", ops |-> <<>>, err |-> NoErr]

Begin ==
    /\ db.pc = "Begin"
    /\ \E res \in Outcomes : db' = BeginTx(db, res)
    /\ UNCHANGED <<builderVars, fn>>

ExecContext ==
    /\ db.pc = "Exec"
    /\ \E res \in Outcomes : db' = ExecNext(db, res)
    /\ UNCHANGED <<builderVars, fn>>

Commit ==
    /\ db.pc = "Commit"
    /\ \E res \in Outcomes : db' = CommitTx(db, res)
    /\ UNCHANGED <<builderVars, fn>>

Rollback ==
    /\ db.pc = "Deferred"
    /\ \E res \in Outcomes : db' = DeferredRollback(db, res)
    /\ UNCHANGED <<builderVars, fn>>

NextTx ==
    \/ Begin
    \/ ExecContext
    \/ Commit
    \/ Rollback

SpecTx == InitTx /\ [][NextTx]_vars

\* ------------------------------------------------------------------------
\* Reading a built query: what the claims below say about its text
\* ------------------------------------------------------------------------

\* the number of pieces of s equal to c
Count(s, c) == Cardinality({ i \in 1..Len(s) : s[i] = c })

IsDigit(p) == \E d \in 1..10 : DigitChar[d] = p

DigitValue(p) == (CHOOSE d \in 1..10 : DigitChar[d] = p) - 1

\* the number written by the digits of s from position i on
RECURSIVE NumberAt(_, _, _)
NumberAt(s, i, acc) ==
    IF i <= Len(s) /\ IsDigit(s[i])
    THEN NumberAt(s, i + 1, 10 * acc + DigitValue(s[i]))
    ELSE acc

\* the numbers of the $N placeholders of s from position i on, left to right
RECURSIVE IndicesFrom(_, _)
IndicesFrom(s, i) ==
    IF i > Len(s) THEN <<>>
    ELSE IF s[i] = "$" THEN <<NumberAt(s, i + 1, 0)>> \o IndicesFrom(s, i + 1)
    ELSE IndicesFrom(s, i + 1)

PlaceholderIndices(s) == IndicesFrom(s, 1)

\* the keywords that start a clause of a query
ClauseKeywords ==
    {" WHERE ", " GROUP BY ", " HAVING ", " ORDER BY ", " LIMIT ", " OFFSET ",
     " RETURNING "}

\* the text of the clause of s that keyword kw starts, up to the next clause
ClauseOf(s, kw) ==
    IF ~Contains(s, kw) THEN <<>>
    ELSE LET w == CHOOSE i \in 1..Len(s) : s[i] = kw /\ \A j \in 1..(i - 1) : s[j] # kw
             ends == { i \in (w + 1)..Len(s) : s[i] \in ClauseKeywords }
             e == IF ends = {} THEN Len(s) + 1
                  ELSE CHOOSE i \in ends : \A j \in ends : i <= j
         IN SubSeq(s, w + 1, e - 1)

\* s ends with t
EndsWith(s, t) ==
    /\ Len(s) >= Len(t)
    /\ SubSeq(s, Len(s) - Len(t) + 1, Len(s)) = t

\* s with its i-th "?" replaced by $i
NumberedFrom1(s) ==
    Concat([k \in 1..Len(s) |->
               IF s[k] = "?" THEN Dollar(Count(SubSeq(s, 1, k), "?")) ELSE <<s[k]>>])

\* the calls of the methods ms, in call order
CallsOf(ms) == SelectSeq(calls, LAMBDA c : c.m \in ms)

\* the value the last call of method m passed, 0 when there was none
LastValue(m) ==
    LET cs == CallsOf({m})
    IN IF cs = <<>> THEN 0 ELSE cs[Len(cs)].vals[1]

\* every Where and Having call passed as many values as its condition has markers
WellFormed ==
    \A i \in 1..Len(calls) :
        calls[i].m \in {"Where", "Having"}
            => Count(calls[i].cond, "?") = Len(calls[i].vals)

\* the values the caller means for the placeholders of a SELECT, in the
\* order of the text: WHERE, HAVING, LIMIT, OFFSET
IntendedSelect ==
    ValuesOf(CallsOf({"Where", "WhereIn", "WhereBetween"}))
    \o ValuesOf(CallsOf({"Having"}))
    \o (IF LastValue("Limit") > 0 THEN <<LastValue("Limit")>> ELSE <<>>)
    \o (IF LastValue("Offset") > 0 THEN <<LastValue("Offset")>> ELSE <<>>)

\* one Build was made, and it was the last call
BuiltOnce == last = "Build" /\ nbuilds = 1

\* ------------------------------------------------------------------------
\* Claims
\* ------------------------------------------------------------------------

\* C2: for a MySQL-family SELECT and any interleaving of Where, WhereIn,
\* WhereBetween and Having calls, each with as many values as markers,
\* followed by one Build, the query has len(args) markers and the i-th
\* marker from the left binds to args[i-1], the value passed for it.
C2_MarkersBindInTextOrder ==
    ( /\ qb.op = "SELECT"
      /\ qb.dbType \in {MariaDB, Mysql}
      /\ BuiltOnce
      /\ WellFormed
      /\ CallsOf({"Limit", "Offset"}) = <<>> )
    => /\ outErr = NoErr
       /\ Count(query, "?") = Len(outArgs)
       /\ outArgs = IntendedSelect

\* C3: for a PostgreSQL SELECT and any sequence of Where, WhereIn,
\* WhereBetween, Having, Limit and Offset calls, each condition with as
\* many values as markers, followed by one Build, the placeholder numbers
\* of the query are exactly 1..len(args), each once, and $k refers to
\* args[k-1], the value passed for that marker (or the limit or offset).
C3_PostgresNumbersMatchArgs ==
    ( /\ qb.op = "SELECT"
      /\ qb.dbType = PostgreSQL
      /\ BuiltOnce
      /\ WellFormed )
    => LET idx == PlaceholderIndices(query)
       IN /\ outErr = NoErr
          /\ Len(idx) = Len(outArgs)
          /\ { idx[j] : j \in 1..Len(idx) } = 1..Len(outArgs)
          /\ Len(idx) = Len(IntendedSelect)
          /\ \A j \in 1..Len(idx) : outArgs[idx[j]] = IntendedSelect[j]

\* C3 witness: a HAVING value bound before a WHERE value, and a LIMIT
C3_Witness ==
    /\ qb.op = "SELECT"
    /\ qb.dbType = PostgreSQL
    /\ BuiltOnce
    /\ WellFormed
    /\ Len(calls) = 3
    /\ calls[1].m = "Having"
    /\ calls[2].m = "Where"
    /\ LastValue("Limit") > 0
    /\ PlaceholderIndices(query) = <<2, 1, 3>>

\* C6: Build does not change the builder's args, so a second Build on the
\* same SELECT builder returns the same query and the same args as the
\* first.
C6_BuildLeavesArgs ==
    [][ nbuilds' = nbuilds + 1
          => /\ qb'.args = qb.args
             /\ (last = "Build" /\ qb.op = "SELECT"
                   => query' = query /\ outArgs' = outArgs) ]_vars

\* the chain so far is made of Where calls only
OnlyWhereCalls ==
    /\ ncalls = Len(calls)
    /\ \A i \in 1..Len(calls) : calls[i].m = "Where"

\* the conditions as the caller wrote them, joined as the assemblers join
RawConditions ==
    Join([i \in 1..Len(CallsOf({"Where"})) |-> CallsOf({"Where"})[i].cond], <<" AND ">>)

\* what C7 says of a built SELECT
SameArgsNumberedConditions ==
    /\ outErr = NoErr
    /\ outArgs = ValuesOf(calls)
    /\ ClauseOf(query, " WHERE ") =
          (IF qb.dbType = PostgreSQL THEN NumberedFrom1(RawConditions)
           ELSE RawConditions)

\* C7 as stated: for the same chain of Where calls on a SELECT builder,
\* Build returns the same args in PostgreSQL and in a MySQL-family
\* dialect, and the PostgreSQL conditions are the MySQL-family ones with
\* the i-th ? replaced by $i.
C7_AnyWhereChain ==
    (qb.op = "SELECT" /\ BuiltOnce /\ OnlyWhereCalls)
    => SameArgsNumberedConditions

\* C7 amended: the same, for chains whose Where calls each pass as many
\* values as the condition has markers.
C7_WellFormedWhereChain ==
    (qb.op = "SELECT" /\ BuiltOnce /\ OnlyWhereCalls /\ WellFormed)
    => SameArgsNumberedConditions

\* C7 witness: a PostgreSQL chain of two Where calls, three markers
C7_Witness ==
    /\ qb.op = "SELECT"
    /\ qb.dbType = PostgreSQL
    /\ BuiltOnce
    /\ OnlyWhereCalls
    /\ WellFormed
    /\ Len(calls) = 2
    /\ PlaceholderIndices(query) = <<1, 2, 3>>

\* the placeholder of the k-th argument in the builder's dialect
PlaceholderFor(k) == IF qb.dbType = PostgreSQL THEN Dollar(k) ELSE <<"?">>

\* C8: for a SELECT with Limit(l) and Offset(o), l > 0 and o > 0, in
\* whatever order they and the Where/Having calls were made, the query
\* ends with the LIMIT placeholder and then the OFFSET placeholder, after
\* every WHERE, HAVING and ORDER BY fragment, and args end with [l, o].
C8_LimitThenOffsetLast ==
    ( /\ qb.op = "SELECT"
      /\ last = "Build"
      /\ LastValue("Limit") > 0
      /\ LastValue("Offset") > 0 )
    => LET n == Len(outArgs)
       IN /\ outErr = NoErr
          /\ n >= 2
          /\ outArgs[n - 1] = LastValue("Limit")
          /\ outArgs[n] = LastValue("Offset")
          /\ EndsWith(query, <<" LIMIT ">> \o PlaceholderFor(n - 1)
                               \o <<" OFFSET ">> \o PlaceholderFor(n))
          /\ Count(query, " LIMIT ") = 1
          /\ Count(query, " OFFSET ") = 1

\* C8 witness: Offset called before Limit, a Where after both
C8_Witness ==
    /\ qb.op = "SELECT"
    /\ BuiltOnce
    /\ Len(calls) = 3
    /\ calls[1].m = "Offset" /\ calls[1].vals[1] > 0
    /\ calls[2].m = "Limit" /\ calls[2].vals[1] > 0
    /\ calls[3].m = "Where"
    /\ Count(query, " WHERE ") = 1

\* the values of the SET pairs, in the order of the sorted keys
SetValues ==
    LET m == qb.data.m
    IN [i \in 1..Len(SelectSeq(KeyOrder, LAMBDA k : k \in DOMAIN m)) |->
           m[SelectSeq(KeyOrder, LAMBDA k : k \in DOMAIN m)[i]]]

\* C1: for a PostgreSQL UPDATE with Set(data) of n columns and one or more
\* Where/WhereIn/WhereBetween conditions, Build returns the n SET values
\* followed by the WHERE values in call order, the SET placeholders read
\* $1..$n and the WHERE placeholders continue after them ($n+1, ...).
C1_UpdateWhereContinuesAfterSet ==
    ( /\ qb.op = "UPDATE"
      /\ qb.dbType = PostgreSQL
      /\ last = "Build"
      /\ ~qb.data.nil
      /\ DOMAIN qb.data.m # {}
      /\ Binding(calls) # <<>>
      /\ WellFormed )
    => /\ outErr = NoErr
       /\ outArgs = SetValues \o BoundValues(calls)
       /\ PlaceholderIndices(query) = [i \in 1..Len(outArgs) |-> i]

\* C4: once the builder's error is set, no later call replaces it, and
\* Build returns that first error.
C4_FirstErrorKept ==
    [][ qb.err # NoErr
          => /\ qb'.err = qb.err
             /\ (nbuilds' = nbuilds + 1 => outErr' = qb.err) ]_vars

\* the fields of the builder a chained call may set, the error apart
ConfiguredFields ==
    {"columns", "joins", "conditions", "having", "groupBy", "orderBy", "limit",
     "offset", "args", "distinct", "data", "returning"}

\* C5: once the builder's error is non-nil, every chained configuration
\* method leaves every field of the builder unchanged.
C5_NoOpAfterError ==
    [][ (qb.err # NoErr /\ ncalls' = ncalls + 1)
          => \A f \in ConfiguredFields : qb'[f] = qb[f] ]_vars

\* a setter of another operation was called on the builder
WrongSetterCalled ==
    \E i \in 1..Len(calls) :
        \/ calls[i].m = "Values" /\ qb.op # "INSERT"
        \/ calls[i].m = "Set" /\ qb.op # "UPDATE"
        \/ calls[i].m = "Returning" /\ qb.op # "INSERT"

\* C9: Values on a non-INSERT builder, Set on a non-UPDATE builder and
\* Returning on a non-INSERT builder make the following Build return a
\* non-nil error, an empty query string and nil args.
C9_WrongSetterIsError ==
    (WrongSetterCalled /\ last = "Build")
    => /\ outErr # NoErr
       /\ query = <<>>
       /\ outArgs = <<>>

\* C9 witness: Returning on a valid UPDATE builder that holds data and a
\* condition, then Build
C9_Witness ==
    /\ qb.op = "UPDATE"
    /\ qb.table # <<>>
    /\ ~qb.data.nil
    /\ qb.conditions # <<>>
    /\ last = "Build"
    /\ \E i \in 1..Len(calls) : calls[i].m = "Returning"
    /\ outErr = ErrReturningOp

\* C10: Build of an INSERT builder, and of an UPDATE builder, returns an
\* error and no query string when no Values/Set call was made or the map
\* passed to it is empty.
C10_DataRequired ==
    ( /\ qb.op \in {"INSERT", "UPDATE"}
      /\ last = "Build"
      /\ (qb.data.nil \/ DOMAIN qb.data.m = {}) )
    => /\ outErr # NoErr
       /\ query = <<>>

\* the quote character of a supported dialect
QuoteOf(dbType) == IF dbType = PostgreSQL THEN DoubleQuote ELSE BackQuote

\* name between quote characters q, every q inside it written twice
Quoted(q, name) ==
    <<q>> \o Concat([i \in 1..Len(name) |->
                       IF name[i] = q THEN <<q, q>> ELSE <<name[i]>>]) \o <<q>>

\* the table name the factory was given
TableGiven == calls[1].names[1]

\* the identifiers the calls of method m passed, in call order
RECURSIVE NamesOf(_)
NamesOf(cs) ==
    IF cs = <<>> THEN <<>> ELSE Head(cs).names \o NamesOf(Tail(cs))

\* a Build of a builder of a supported dialect returned a query
BuiltQuery ==
    /\ last = "Build"
    /\ outErr = NoErr
    /\ qb.dbType \in Dialects

\* C11: in a built query the table name and every GROUP BY column (single
\* identifiers: no space, no dot) stand between the quote characters of the
\* dialect, with every quote character inside the name doubled.
C11_QuoteDoubled ==
    BuiltQuery
    => /\ qb.table = Quoted(QuoteOf(qb.dbType), TableGiven)
       /\ ClauseOf(query, " GROUP BY ") =
             Join([i \in 1..Len(NamesOf(CallsOf({"GroupBy"}))) |->
                      Quoted(QuoteOf(qb.dbType), NamesOf(CallsOf({"GroupBy"}))[i])],
                  <<", ">>)

\* C12: a builder made with a dialect other than postgres, mariadb and
\* mysql carries an error, so its Build returns an error and no query.
C12_UnsupportedDialectIsError ==
    (last = "Build" /\ qb.dbType \notin Dialects)
    => /\ outErr # NoErr
       /\ query = <<>>

\* some call so far passed the empty string as an identifier
EmptyPassed ==
    \E i \in 1..Len(calls) : \E k \in 1..Len(calls[i].names) : calls[i].names[k] = <<>>

\* the call c passed the empty string to OrderBy with a map of allowed
\* columns that has no empty key, so that OrderBy puts id in its place
ReplacedById(c) ==
    /\ c.m = "OrderBy"
    /\ ~c.allowed.nil
    /\ <<>> \notin c.allowed.keys

\* some call so far passed the empty string as an identifier that OrderBy
\* did not replace
EmptyKept ==
    \E i \in 1..Len(calls) :
        /\ \E k \in 1..Len(calls[i].names) : calls[i].names[k] = <<>>
        /\ ~ReplacedById(calls[i])

\* Build returned an error, the empty query and nil args
BuildFailed ==
    /\ outErr # NoErr
    /\ query = <<>>
    /\ outArgs = <<>>

\* C13 as stated: after an empty string was passed as the table name, a
\* column name of the factory, a join table or the column of Aggregate,
\* WhereIn, WhereBetween, GroupBy or OrderBy, Build returns a non-nil error,
\* the empty query and nil args.
C13_EmptyNameIsError ==
    (last = "Build" /\ EmptyPassed) => BuildFailed

\* C13 amended: the same, except for the empty column that OrderBy replaces
\* by id because a non-nil map of allowed columns does not hold it.
C13_EmptyNameKeptIsError ==
    (last = "Build" /\ EmptyKept) => BuildFailed

\* C13 witness: a SELECT builder with a table, WhereIn with the empty
\* column, then Build returns the empty-identifier error
C13_Witness ==
    /\ last = "Build"
    /\ qb.op = "SELECT"
    /\ TableGiven = <<"users">>
    /\ Len(calls) = 2
    /\ calls[2].m = "WhereIn"
    /\ calls[2].names = << <<>> >>
    /\ outErr = ErrEmptyIdentifier
    /\ query = <<>>

\* the factory was given a table and columns that are not empty
ValidFactoryCall ==
    \A k \in 1..Len(calls[1].names) : calls[1].names[k] # <<>>

\* C14: Build on a builder that NewQueryBuilder returned for a supported
\* dialect, a table and columns returns a nil error and a query that
\* starts with SELECT and names the table after FROM.
C14_NewQueryBuilderIsSelect ==
    ( /\ last = "Build"
      /\ calls[1].m = "NewQueryBuilder"
      /\ qb.dbType \in Dialects
      /\ ValidFactoryCall
      /\ ncalls = 0 )
    => /\ outErr = NoErr
       /\ query # <<>>
       /\ Head(query) = "SELECT "
       /\ Contains(query, " FROM ")

C16_MysqlEqualsMariaDB ==
    last = "Build"
    => /\ query = twin.query
       /\ outArgs = twin.args
       /\ outErr = twin.err

\* C17: a Build of an INSERT builder that follows a Build of it, the data
\* being the same, returns the same query, the same args and the same
\* error: the order of the columns does not depend on the order in which
\* the map is ranged over.
C17_InsertBuildRepeats ==
    [][ (last = "Build" /\ last' = "Build" /\ qb.op = "INSERT")
          => /\ query' = query
             /\ outArgs' = outArgs
             /\ outErr' = outErr ]_vars

\* the number of placeholder markers of s, ? or $N
MarkerCount(s) == Count(s, "?") + Count(s, "$")

\* C18: a built DELETE is DELETE FROM and the table, then WHERE and the
\* conditions when there are any; it has as many markers as args, whatever
\* calls were chained (each with as many values as markers), and its args
\* are the values of the Where, WhereIn and WhereBetween calls in call
\* order.
C18_DeleteMarkersMatchArgs ==
    (last = "Build" /\ qb.op = "DELETE" /\ outErr = NoErr /\ WellFormed)
    => /\ query = <<"DELETE FROM ">> \o qb.table
                  \o (IF qb.conditions # <<>>
                      THEN <<" WHERE ">> \o Join(qb.conditions, <<" AND ">>)
                      ELSE <<>>)
       /\ MarkerCount(query) = Len(outArgs)
       /\ (CallsOf({"AddWhereIfNotEmpty"}) = <<>>
             => outArgs = ValuesOf(CallsOf({"Where", "WhereIn", "WhereBetween"})))

\* the clause of the last Returning call, empty when there was none
ReturningGiven ==
    LET rs == CallsOf({"Returning"})
    IN IF rs = <<>> THEN <<>> ELSE rs[Len(rs)].cond

OrderByGiven ==
    LET os == CallsOf({"OrderBy"}) IN os[Len(os)]

\* the column OrderBy is to render for the call c: the column passed when it
\* is a key of the map, id otherwise
AllowedOrId(c) ==
    IF c.names[1] \in c.allowed.keys THEN c.names[1] ELSE <<"id">>

\* C20: when the last OrderBy call passed a non-nil map of allowed columns,
\* the ORDER BY clause of the built query names a key of the map or id, and
\* a column that is not a key of the map is nowhere in the query.
C20_OrderByAllowedOrId ==
    ( /\ last = "Build"
      /\ qb.op = "SELECT"
      /\ outErr = NoErr
      /\ CallsOf({"OrderBy"}) # <<>>
      /\ ~OrderByGiven.allowed.nil )
    => /\ ClauseOf(query, " ORDER BY ") =
             EscapeIdentifier(qb.dbType, AllowedOrId(OrderByGiven)).s \o <<" ", "ASC">>
       /\ \A i \in 1..Len(calls) :
             ( /\ calls[i].m = "OrderBy"
               /\ ~calls[i].allowed.nil
               /\ calls[i].names[1] # <<>>
               /\ calls[i].names[1] \notin calls[i].allowed.keys )
             => ~Contains(query, calls[i].names[1][1])

\* C20 witness: OrderBy with a column that is not allowed, built as ORDER BY id
C20_Witness ==
    /\ last = "Build"
    /\ qb.op = "SELECT"
    /\ qb.dbType = PostgreSQL
    /\ outErr = NoErr
    /\ Len(calls) = 2
    /\ calls[2].m = "OrderBy"
    /\ calls[2].names = << <<"secret">> >>
    /\ calls[2].allowed.keys = { <<"a">> }
    /\ ~calls[2].allowed.nil
    /\ ClauseOf(query, " ORDER BY ") = <<DoubleQuote, "id", DoubleQuote, " ", "ASC">>

RECURSIVE DigitRun(_, _)
DigitRun(s, i) ==
    IF i <= Len(s) /\ IsDigit(s[i]) THEN 1 + DigitRun(s, i + 1) ELSE 0

\* s from position i on, with offset added to the number of every $N
RECURSIVE RenumberedFrom(_, _, _)
RenumberedFrom(s, i, offset) ==
    IF i > Len(s) THEN <<>>
    ELSE IF s[i] = "$" /\ DigitRun(s, i + 1) > 0
    THEN Dollar(NumberAt(s, i + 1, 0) + offset)
         \o RenumberedFrom(s, i + 1 + DigitRun(s, i + 1), offset)
    ELSE <<s[i]>> \o RenumberedFrom(s, i + 1, offset)

\* C22: for a condition whose placeholders are all numbered,
\* shiftPlaceholders(condition, offset) returns condition with offset added
\* to the number of every $N placeholder, of one digit or more, and nothing
\* else changed.
C22_ShiftAddsOffset ==
    ( /\ fn # <<>>
      /\ fn.f = "shiftPlaceholders"
      /\ fn.returned
      /\ ~Contains(fn.args[1], "?") )
    => fn.result = RenumberedFrom(fn.args[1], 1, fn.args[2])

\* the place of the first dot of name
DotOf(name) ==
    CHOOSE i \in 1..Len(name) : name[i] = "." /\ \A j \in 1..(i - 1) : name[j] # "."

KeyRank(k) == CHOOSE i \in 1..Len(KeyOrder) : KeyOrder[i] = k

\* the keys of the builder's data, smallest first
KeysAscending ==
    CHOOSE o \in Orders(qb.data.m) :
        \A i, j \in DOMAIN o : i < j => KeyRank(o[i]) < KeyRank(o[j])

IsPrefix(s, t) ==
    /\ Len(s) <= Len(t)
    /\ SubSeq(t, 1, Len(s)) = s

\* C24: every chained call and every Build leaves the args the builder had
\* before it as the beginning of the args it has after it.
C24_ArgsAppendOnly ==
    [][IsPrefix(qb.args, qb'.args)]_vars

\* C24 witness: a builder whose args were extended by a chained call and
\* then by Build
C24_Witness ==
    /\ qb.op = "SELECT"
    /\ last = "Build"
    /\ BoundValues(calls) # <<>>
    /\ IsPrefix(BoundValues(calls), qb.args)
    /\ Len(qb.args) > Len(BoundValues(calls))

\* C29: an UPDATE builder given Set(data) and then Where-family calls, and
\* one given the same Where-family calls and then Set(data), build the same
\* query, args and error; the args of a successful Build are the SET values
\* followed by the WHERE values in call order.
C29_SetWhereCommute ==
    (last = "Build")
    => /\ query = twin.query
       /\ outArgs = twin.args
       /\ outErr = twin.err
       /\ outErr = NoErr => outArgs = SetValues \o BoundValues(calls)

\* C29 witness: PostgreSQL builders of the columns a and b and two
\* Where-family calls, built without error
C29_Witness ==
    /\ last = "Build"
    /\ qb.dbType = PostgreSQL
    /\ outErr = NoErr
    /\ DOMAIN qb.data.m = {"a", "b"}
    /\ Len(Binding(calls)) = 2
    /\ twin.qb.data = qb.data
    /\ Count(query, " WHERE ") = 1
    /\ query = twin.query
    /\ Len(outArgs) >= 4

\* the direction the claim expects for the direction a caller passed
ExpectedDirection(direction) ==
    IF direction \in {<<"asc">>, <<"Asc">>, <<"ASC">>} THEN "ASC" ELSE "DESC"

\* C25: the ORDER BY clause of a built SELECT is the escaped column, a
\* space and exactly ASC or DESC: ASC when the direction last passed to
\* OrderBy is ASC in any case, DESC for every other direction, the empty
\* string included.
C25_DirectionAscOrDesc ==
    (last = "Build" /\ outErr = NoErr /\ CallsOf({"OrderBy"}) # <<>>)
    => LET q == QuoteOf(qb.dbType)
           clause == ClauseOf(query, " ORDER BY ")
       IN /\ clause = <<q, "a", q, " ", ExpectedDirection(OrderByGiven.cond)>>
          /\ clause[Len(clause)] \in {"ASC", "DESC"}

\* C25 witness: a query built after OrderBy was passed Asc and then the
\* empty string
C25_Witness ==
    /\ last = "Build"
    /\ outErr = NoErr
    /\ Len(CallsOf({"OrderBy"})) = 2
    /\ CallsOf({"OrderBy"})[1].cond = <<"Asc">>
    /\ OrderByGiven.cond = <<>>
    /\ EndsWith(ClauseOf(query, " ORDER BY "), <<" ", "DESC">>)

\* the values for which the claim has AddWhereIfNotEmpty do nothing
IsEmptyValue(value) ==
    \/ value.type = "nil"
    \/ value.type = "string" /\ value.empty
    \/ value.type = "*string" /\ value.nilptr
    \/ value.type = "*string" /\ ~value.nilptr /\ value.empty

\* C30: a call AddWhereIfNotEmpty(condition, value) leaves the builder as
\* it was when value is nil, "", a nil *string or a pointer to "", and
\* leaves it as Where(condition, value) does for every other value, 0 and
\* false included.
C30_AddWhereIfNotEmpty ==
    [][(calls' # calls /\ calls'[Len(calls')].m = "AddWhereIfNotEmpty")
       => LET c == calls'[Len(calls')]
              value == c.vals[1]
          IN IF IsEmptyValue(value) THEN qb' = qb
             ELSE qb' = Where(qb, c.cond, <<value.id>>)]_vars

\* C30 witness: the first call passed nil and the second passed 0; the
\* builder has the condition and the arg of the second call alone
C30_Witness ==
    /\ Len(calls) = 2
    /\ calls[1].m = "AddWhereIfNotEmpty"
    /\ calls[1].vals[1].type = "nil"
    /\ calls[2].m = "AddWhereIfNotEmpty"
    /\ calls[2].vals[1].type = "int"
    /\ calls[2].vals[1].id = 0
    /\ qb.dbType = PostgreSQL
    /\ qb.conditions = << <<"w = ", "$", "1">> >>
    /\ qb.args = <<0>>

\* C27: the pool of a connector returned without error has the configured
\* limits, with 60 seconds for a zero MaxLifeTime, 50 for a zero
\* MaxIdleConns and 100 for a zero MaxOpenConns; its maximum number of
\* open connections is the resulting MaxOpenConns.
C27_PoolLimits ==
    (db.returned /\ db.err = NoErr)
    => LET cfg == db.cfg
           pool == db.connect.pool
       IN /\ pool.maxLifetime = (IF cfg.MaxLifeTime = 0 THEN 60 ELSE cfg.MaxLifeTime)
          /\ pool.maxIdleCount = (IF cfg.MaxIdleConns = 0 THEN 50 ELSE cfg.MaxIdleConns)
          /\ pool.maxOpen = (IF cfg.MaxOpenConns = 0 THEN 100 ELSE cfg.MaxOpenConns)

\* the ExecContext calls made so far, in the order they were made
Execs == SelectSeq(db.ops, LAMBDA o : o.op = "Exec")

\* the calls of operation op made so far
OpsOf(op) == SelectSeq(db.ops, LAMBDA o : o.op = op)

=============================================================================
